---- MODULE Spec2Model ----
(***************************************************************************)
(* SafePath routing engine (backend/route_optimizer.py,                    *)
(* backend/advanced_routing.py, backend/api.py).                           *)
(*                                                                         *)
(* Units.  A node is a pair <<lon, lat>> of integers in millidegrees       *)
(* (0.001 degree = 111 m under the code's 111_000 m per degree).  Buffers  *)
(* of the corridor box are kept in microdegrees.  Edge weights are         *)
(* integer-valued floats.  A missing incidents_count is NaN.               *)
(***************************************************************************)
EXTENDS Integers, Sequences, FiniteSets, TLC

VARIABLES
    df,            \* the edge table read from the CSV: a sequence of rows
    G,             \* self.G: [nodes, adj, attr]
    edge_bounds,   \* self._edge_bounds: row index -> bbox
    min_ratio,     \* _min_combined_ratio, _min_risk_ratio, _min_incident_ratio
    nodes_list,    \* self._nodes_list
    rtree,         \* RTREE_AVAILABLE: the spatial indexes exist
    last,          \* the last query and what it returned
    calls          \* the calls of calculate_route in progress, by caller

vars == <<df, G, edge_bounds, min_ratio, nodes_list, rtree, last, calls>>

-----------------------------------------------------------------------------
(* Small arithmetic helpers *)

Min2(a, b) == IF a <= b THEN a ELSE b
Max2(a, b) == IF a >= b THEN a ELSE b

RECURSIVE ISqrtIn(_, _, _)
\* the r of lo..hi with r * r <= n < (r + 1) * (r + 1), by bisection
ISqrtIn(n, lo, hi) ==
    IF lo >= hi THEN lo
    ELSE LET mid == (lo + hi + 1) \div 2
         IN  IF mid * mid <= n THEN ISqrtIn(n, mid, hi) ELSE ISqrtIn(n, lo, mid - 1)

\* floor of the square root
ISqrt(n) == ISqrtIn(n, 0, Min2(n, 46340))

Range(s) == {s[i] : i \in 1..Len(s)}

InSeq(x, s) == \E i \in 1..Len(s) : s[i] = x

\* pandas NaN in the incidents_count column
NaN == -1

IsNaN(x) == x = NaN

\* meters per millidegree: the code's 111_000 meters per degree
MetersPerUnit == 111

\* math.sqrt(dlon^2 + dlat^2) * 111_000, in whole meters
StraightM(n1, n2) ==
    ISqrt(MetersPerUnit * MetersPerUnit
            * ((n1[1] - n2[1]) * (n1[1] - n2[1]) + (n1[2] - n2[2]) * (n1[2] - n2[2])))

-----------------------------------------------------------------------------
(* _build_graph *)

\* the attribute bundle add_edge stores for a row
EdgeAttrs(row) ==
    [ length           |-> row.length,
      incidents_count  |-> row.incidents_count,
      risk_score       |-> row.risk_score,
      combined_cost    |-> row.combined_cost,
      bbox             |-> row.bbox,
      weight_distance  |-> row.length,
      weight_risk      |-> row.risk_score,
      weight_combined  |-> row.combined_cost,
      weight_incidents |-> IF IsNaN(row.incidents_count) THEN 0 ELSE row.incidents_count ]

EmptyGraph == [nodes |-> <<>>, adj |-> <<>>, attr |-> <<>>]

HasNode(g, n) == InSeq(n, g.nodes)

\* nx.DiGraph.add_node: a new node goes last, a known node keeps its place
AddNode(g, n) ==
    IF HasNode(g, n) THEN g
    ELSE [g EXCEPT !.nodes = Append(@, n), !.adj = @ @@ (n :> <<>>)]

Succ(g, u) == g.adj[u]

HasEdge(g, u, v) == HasNode(g, u) /\ InSeq(v, Succ(g, u))

\* nx.DiGraph.add_edge: the first insertion fixes the neighbour order, a later
\* insertion of the same (u, v) overwrites the attribute bundle
AddEdge(g, u, v, a) ==
    LET g1 == AddNode(AddNode(g, u), v)
    IN  IF InSeq(v, g1.adj[u])
        THEN [g1 EXCEPT !.attr = [e \in DOMAIN @ |-> IF e = <<u, v>> THEN a ELSE @[e]]]
        ELSE [g1 EXCEPT !.adj = [@ EXCEPT ![u] = Append(@, v)],
                        !.attr = @ @@ (<<u, v>> :> a)]

RECURSIVE GraphOfRows(_, _, _)
\* the graph after inserting rows[i] for every i of idxs, in that order
GraphOfRows(rows, idxs, g) ==
    IF idxs = <<>> THEN g
    ELSE LET row == rows[Head(idxs)]
             g1  == AddEdge(g, row.origin, row.destination, EdgeAttrs(row))
         IN  \* add_edge leaves both endpoints in the graph; the test makes the
             \* evaluation insert this row before it reads the next one
             IF HasNode(g1, row.origin) THEN GraphOfRows(rows, Tail(idxs), g1) ELSE g1

AllIdx(rows) == [i \in 1..Len(rows) |-> i]

BuildGraph(rows) == GraphOfRows(rows, AllIdx(rows), EmptyGraph)

\* a ratio weight / length, kept as the fraction <<weight, length>>; 0 is <<0, 1>>
RatioLess(a, b) == a[1] * b[2] < b[1] * a[2]

RECURSIVE MinRatioFrom(_, _, _, _)
\* the running minimum of the positive ratios row[field] / row.length
MinRatioFrom(rows, i, field, best) ==
    IF i > Len(rows) THEN best
    ELSE LET row == rows[i]
             w   == IF field = "incidents_count" /\ IsNaN(row[field]) THEN 0 ELSE row[field]
             r   == <<w, row.length>>
         IN  IF row.length > 0 /\ w > 0 /\ (best[1] = 0 \/ RatioLess(r, best))
             THEN MinRatioFrom(rows, i + 1, field, r)
             ELSE MinRatioFrom(rows, i + 1, field, best)

BuildMinRatio(rows) ==
    [ combined  |-> MinRatioFrom(rows, 1, "combined_cost", <<0, 1>>),
      risk      |-> MinRatioFrom(rows, 1, "risk_score", <<0, 1>>),
      incidents |-> MinRatioFrom(rows, 1, "incidents_count", <<0, 1>>) ]

BuildEdgeBounds(rows) == [i \in 1..Len(rows) |-> rows[i].bbox]

-----------------------------------------------------------------------------
(* find_nearest_node *)

\* (n[0] - lon) ** 2 + (n[1] - lat) ** 2
SqDist(n, p) == (n[1] - p[1]) * (n[1] - p[1]) + (n[2] - p[2]) * (n[2] - p[2])

\* the number of results asked of the node index
NearestK == 5

\* the nodes _node_rtree.nearest(point, 5) yields: the 5 nearest, and every
\* node as far away as the last of them
NearestIds(p) ==
    {n \in Range(nodes_list) :
        Cardinality({m \in Range(nodes_list) : SqDist(m, p) < SqDist(n, p)}) < NearestK}

\* The index yields its results by ascending distance; the order of results at
\* the same distance is not fixed by the index.  The loop keeps the first result
\* of strictly smaller distance, so it returns the first-yielded nearest node.
NearestByIndex(p) ==
    {n \in NearestIds(p) : \A m \in NearestIds(p) : SqDist(n, p) <= SqDist(m, p)}

RECURSIVE LinearNearest(_, _, _)
\* the linear scan: the first node of _nodes_list of strictly smaller distance
LinearNearest(p, i, best) ==
    IF i > Len(nodes_list) THEN best
    ELSE IF best = <<>> \/ SqDist(nodes_list[i], p) < SqDist(best, p)
         THEN LinearNearest(p, i + 1, nodes_list[i])
         ELSE LinearNearest(p, i + 1, best)

\* the nodes find_nearest_node(lon, lat) can return
FindNearestNode(p) ==
    IF rtree /\ NearestByIndex(p) # {} THEN NearestByIndex(p)
    ELSE {LinearNearest(p, 1, <<>>)}

-----------------------------------------------------------------------------
(* corridor subgraph *)

\* math.cos(math.radians(lat_ref)) in thousandths; the model's nodes lie within
\* a tenth of a degree of the equator, where the cosine is 1 to six places
CosPerMille(lat) == 1000

\* _degrees_buffer: (dx, dy) in microdegrees for a margin in meters
DegreesBuffer(meters, lat_ref) ==
    LET dy == (meters * 1000000) \div 111000
        c  == Max2(100, CosPerMille(lat_ref))
    IN  <<(dy * 1000) \div c, dy>>

\* the corridor box, in microdegrees, for the buffers (dx, dy)
CorridorBox(s, e, buf) ==
    << 1000 * Min2(s[1], e[1]) - buf[1], 1000 * Min2(s[2], e[2]) - buf[2],
       1000 * Max2(s[1], e[1]) + buf[1], 1000 * Max2(s[2], e[2]) + buf[2] >>

\* a variant of the filter that keeps only the rows whose bounds lie inside
\* the box
LiesInside(eb, box) ==
    box[1] <= 1000 * eb[1] /\ box[2] <= 1000 * eb[2]
        /\ 1000 * eb[3] <= box[3] /\ 1000 * eb[4] <= box[4]

\* not (ex2 < minx or ex1 > maxx or ey2 < miny or ey1 > maxy)
Intersects(eb, box) ==
    ~ (1000 * eb[3] < box[1] \/ 1000 * eb[1] > box[3]
       \/ 1000 * eb[4] < box[2] \/ 1000 * eb[2] > box[4])

\* the row ids _edges_in_bbox returns
RowsInBBox(box) == {i \in 1..Len(df) : Intersects(edge_bounds[i], box)}

RECURSIVE OrderBy(_, _)
\* the members of ids in the order they take in the sequence prio
OrderBy(prio, ids) ==
    IF prio = <<>> THEN <<>>
    ELSE IF Head(prio) \in ids THEN <<Head(prio)>> \o OrderBy(Tail(prio), ids)
         ELSE OrderBy(Tail(prio), ids)

\* the orders in which _edges_in_bbox can list the rows that meet box: the linear
\* scan lists them by row id, the edge index in an order of its own
RowOrders(box) ==
    IF rtree
    THEN LET ids == RowsInBBox(box)
         IN  {p \in [1..Cardinality(ids) -> ids] :
                 \A i, j \in 1..Cardinality(ids) : i # j => p[i] # p[j]}
    ELSE {AllIdx(df)}

\* _build_temp_graph_for_bbox, the candidate rows listed in the order prio
BuildTempGraph(box, prio) == GraphOfRows(df, OrderBy(prio, RowsInBBox(box)), EmptyGraph)

-----------------------------------------------------------------------------
(* weights *)

WeightKeys == {"weight_distance", "weight_risk", "weight_combined", "weight_incidents"}

\* opt_map.get(optimization, f"weight_{optimization}")
OptMap(optimization) ==
    CASE optimization = "distance"   -> "weight_distance"
      [] optimization = "risk"       -> "weight_risk"
      [] optimization = "combined"   -> "weight_combined"
      [] optimization = "incidents"  -> "weight_incidents"
      [] optimization = "incident"   -> "weight_incidents"
      [] optimization = "incidentes" -> "weight_incidents"
      [] OTHER -> "weight_" \o optimization

\* f"weight_{optimization}", as the heuristic variants build the key
WeightAttr(optimization) == "weight_" \o optimization

\* the edge weight as networkx reads it: data.get(weight, 1)
WeightNx(g, u, v, key) == IF key \in WeightKeys THEN g.attr[<<u, v>>][key] ELSE 1

\* sum of the weights along a path
RECURSIVE PathCost(_, _, _)
PathCost(g, path, key) ==
    IF Len(path) < 2 THEN 0
    ELSE WeightNx(g, path[1], path[2], key) + PathCost(g, Tail(path), key)

-----------------------------------------------------------------------------
(* priority queues: entries <<priority, counter, ...>>, heapq order *)

MinIdx(q) ==
    CHOOSE i \in 1..Len(q) : \A j \in 1..Len(q) :
        q[i][1] < q[j][1] \/ (q[i][1] = q[j][1] /\ q[i][2] <= q[j][2])

RemoveAt(q, i) == SubSeq(q, 1, i - 1) \o SubSeq(q, i + 1, Len(q))

\* a dictionary over the nodes with no entry yet
None == -1
NoEntries(g) == [n \in Range(g.nodes) |-> None]

-----------------------------------------------------------------------------
(* networkx: dijkstra_path / dijkstra_path_length (_dijkstra_multisource) *)

RECURSIVE DijkstraRelax(_, _, _, _, _)
DijkstraRelax(g, key, v, us, s) ==
    IF us = <<>> THEN s
    ELSE LET u  == Head(us)
             vu == s.dist[v] + WeightNx(g, v, u, key)
         IN  IF s.dist[u] # None THEN DijkstraRelax(g, key, v, Tail(us), s)
             ELSE IF s.seen[u] = None \/ vu < s.seen[u]
                  THEN DijkstraRelax(g, key, v, Tail(us),
                          [s EXCEPT !.seen[u] = vu,
                                    !.fringe = Append(@, <<vu, s.c, u>>),
                                    !.c = @ + 1,
                                    !.paths[u] = Append(s.paths[v], u)])
                  ELSE DijkstraRelax(g, key, v, Tail(us), s)

RECURSIVE DijkstraLoop(_, _, _, _)
DijkstraLoop(g, key, target, s) ==
    IF s.fringe = <<>> THEN s
    ELSE LET i == MinIdx(s.fringe)
             d == s.fringe[i][1]
             v == s.fringe[i][3]
             s1 == [s EXCEPT !.fringe = RemoveAt(@, i)]
         IN  IF s1.dist[v] # None THEN DijkstraLoop(g, key, target, s1)
             ELSE LET s2 == [s1 EXCEPT !.dist[v] = d]
                  IN  IF v = target THEN s2
                      ELSE DijkstraLoop(g, key, target, DijkstraRelax(g, key, v, Succ(g, v), s2))

\* what the search state s holds for target
DijkstraOut(s, target) ==
    IF s.dist[target] = None THEN <<FALSE, <<>>, 0>>
    ELSE <<TRUE, s.paths[target], s.dist[target]>>

\* <<found, path, cost>>; found is FALSE where networkx raises NetworkXNoPath
Dijkstra(g, source, target, key) ==
    DijkstraOut(
        DijkstraLoop(g, key, target,
            [ fringe |-> <<(<<0, 0, source>>)>>,
              dist   |-> NoEntries(g),
              seen   |-> [NoEntries(g) EXCEPT ![source] = 0],
              paths  |-> [n \in Range(g.nodes) |-> IF n = source THEN <<source>> ELSE <<>>],
              c      |-> 1 ]),
        target)

-----------------------------------------------------------------------------
(* the A* heuristic h / h_full of calculate_route *)

\* h(n1, n2) = d * HRatio[1] / HRatio[2], d the straight-line meters
HRatio(weight_attr) ==
    IF weight_attr = "weight_distance" THEN <<1, 1>>
    ELSE IF weight_attr = "weight_combined" /\ min_ratio.combined[1] > 0 THEN min_ratio.combined
    ELSE IF weight_attr = "weight_risk"
         THEN IF min_ratio.risk[1] > 0 THEN min_ratio.risk ELSE <<1, 10000>>
    ELSE IF weight_attr = "weight_incidents"
         THEN IF min_ratio.incidents[1] > 0 THEN min_ratio.incidents ELSE <<1, 100000>>
    ELSE <<0, 1>>

\* h(n1, n2) times the denominator HRatio[2]
HScaled(n1, n2, weight_attr) == StraightM(n1, n2) * HRatio(weight_attr)[1]

-----------------------------------------------------------------------------
(* networkx: astar_path / astar_path_length *)
(* queue entries <<priority, counter, node, dist, parent>>; priorities are   *)
(* kept times the denominator of the heuristic's ratio                       *)

NoParent == <<>>

RECURSIVE AStarExpand(_, _, _, _, _, _, _)
AStarExpand(g, key, target, cur, dist, ns, s) ==
    IF ns = <<>> THEN s
    ELSE LET nb    == Head(ns)
             ncost == dist + WeightNx(g, cur, nb, key)
         IN  IF s.enqueued[nb] # None /\ s.enqueued[nb] <= ncost
             THEN AStarExpand(g, key, target, cur, dist, Tail(ns), s)
             ELSE AStarExpand(g, key, target, cur, dist, Tail(ns),
                     [s EXCEPT !.enqueued[nb] = ncost,
                               !.queue = Append(@, << ncost * HRatio(key)[2] + HScaled(nb, target, key),
                                                      s.c, nb, ncost, cur >>),
                               !.c = @ + 1])

RECURSIVE AStarPathBack(_, _, _)
\* the walk along explored[] from a node back to the source
AStarPathBack(explored, node, acc) ==
    IF node = NoParent THEN acc
    ELSE AStarPathBack(explored, explored[node], <<node>> \o acc)

RECURSIVE AStarLoop(_, _, _, _)
AStarLoop(g, key, target, s) ==
    IF s.queue = <<>> THEN <<FALSE, <<>>>>
    ELSE LET i      == MinIdx(s.queue)
             e      == s.queue[i]
             cur    == e[3]
             dist   == e[4]
             parent == e[5]
             s1     == [s EXCEPT !.queue = RemoveAt(@, i)]
         IN  IF cur = target
             THEN <<TRUE, AStarPathBack(s1.explored, parent, <<cur>>)>>
             ELSE IF cur \in s1.done /\ (s1.explored[cur] = NoParent \/ s1.enqueued[cur] < dist)
                  THEN AStarLoop(g, key, target, s1)
                  ELSE AStarLoop(g, key, target,
                          AStarExpand(g, key, target, cur, dist, Succ(g, cur),
                              [s1 EXCEPT !.done = @ \cup {cur}, !.explored[cur] = parent]))

\* <<found, path, cost>>; astar_path_length sums the weights along astar_path
AStarOut(g, key, r) ==
    IF r[1] THEN <<TRUE, r[2], PathCost(g, r[2], key)>> ELSE <<FALSE, <<>>, 0>>

AStar(g, source, target, key) ==
    AStarOut(g, key,
        AStarLoop(g, key, target,
            [ queue    |-> <<(<<0, 0, source, 0, NoParent>>)>>,
              enqueued |-> NoEntries(g),
              explored |-> [n \in Range(g.nodes) |-> NoParent],
              done     |-> {},
              c        |-> 1 ]))

-----------------------------------------------------------------------------
(* networkx: bellman_ford_path / bellman_ford_path_length                    *)
(* (_inner_bellman_ford; the negative-cycle exits need a negative weight)    *)

RECURSIVE BellmanFordRelax(_, _, _, _, _)
BellmanFordRelax(g, key, u, vs, s) ==
    IF vs = <<>> THEN s
    ELSE LET v      == Head(vs)
             dist_v == s.dist[u] + WeightNx(g, u, v, key)
         IN  IF s.dist[v] = None \/ dist_v < s.dist[v]
             THEN BellmanFordRelax(g, key, u, Tail(vs),
                     [s EXCEPT !.q    = IF InSeq(v, @) THEN @ ELSE Append(@, v),
                               !.dist[v] = dist_v,
                               !.pred[v] = <<u>>])
             ELSE IF dist_v = s.dist[v]
                  THEN BellmanFordRelax(g, key, u, Tail(vs), [s EXCEPT !.pred[v] = Append(@, u)])
                  ELSE BellmanFordRelax(g, key, u, Tail(vs), s)

RECURSIVE BellmanFordLoop(_, _, _)
BellmanFordLoop(g, key, s) ==
    IF s.q = <<>> THEN s
    ELSE LET u  == Head(s.q)
             s1 == [s EXCEPT !.q = Tail(@)]
         IN  IF \A i \in 1..Len(s1.pred[u]) : ~ InSeq(s1.pred[u][i], s1.q)
             THEN BellmanFordLoop(g, key, BellmanFordRelax(g, key, u, Succ(g, u), s1))
             ELSE BellmanFordLoop(g, key, s1)

RECURSIVE FirstPredPath(_, _, _, _)
\* _build_paths_from_predecessors: the first path, along the first predecessors
FirstPredPath(pred, source, node, acc) ==
    IF node = source \/ Len(acc) > Cardinality(DOMAIN pred) THEN <<node>> \o acc
    ELSE FirstPredPath(pred, source, pred[node][1], <<node>> \o acc)

BellmanFordOut(s, source, target) ==
    IF s.dist[target] = None THEN <<FALSE, <<>>, 0>>
    ELSE <<TRUE, FirstPredPath(s.pred, source, target, <<>>), s.dist[target]>>

\* <<found, path, cost>>
BellmanFord(g, source, target, key) ==
    IF source = target THEN <<TRUE, <<source>>, 0>>
    ELSE BellmanFordOut(
             BellmanFordLoop(g, key,
                 [ q    |-> <<source>>,
                   dist |-> [NoEntries(g) EXCEPT ![source] = 0],
                   pred |-> [n \in Range(g.nodes) |-> <<>>] ]),
             source, target)

-----------------------------------------------------------------------------
(* _calculate_route_stats, _get_edge_details *)

RECURSIVE SumAttr(_, _, _)
SumAttr(g, path, field) ==
    IF Len(path) < 2 THEN 0
    ELSE g.attr[<<path[1], path[2]>>][field] + SumAttr(g, Tail(path), field)

\* some edge of the path has no incidents_count
PathHasNaN(g, path) ==
    \E i \in 1..(Len(path) - 1) : IsNaN(g.attr[<<path[i], path[i + 1]>>].incidents_count)

\* int(total_incidents) and int(edge_data["incidents_count"]) raise ValueError on NaN
StatsRaise(g, path) == PathHasNaN(g, path)

\* avg_risk is the fraction <<total_risk, edge_count>>, <<0, 1>> for no edge
RouteStats(g, path) ==
    [ total_distance  |-> SumAttr(g, path, "length"),
      avg_risk        |-> IF Len(path) > 1 THEN <<SumAttr(g, path, "risk_score"), Len(path) - 1>>
                          ELSE <<0, 1>>,
      total_incidents |-> SumAttr(g, path, "incidents_count"),
      num_segments    |-> Len(path) - 1 ]

EdgeDetails(g, path) ==
    [ i \in 1..(Len(path) - 1) |->
        LET a == g.attr[<<path[i], path[i + 1]>>]
        IN  [ from |-> path[i], to |-> path[i + 1], length |-> a.length,
              incidents_count |-> a.incidents_count, risk_score |-> a.risk_score ] ]

-----------------------------------------------------------------------------
(* results *)

NoStats == [total_distance |-> 0, avg_risk |-> <<0, 1>>, total_incidents |-> 0, num_segments |-> 0]

\* the call returned None ("none") or raised ("raise")
Fail(status) ==
    [ status |-> status, path |-> <<>>, cost |-> 0, optimization |-> "", algorithm |-> "",
      statistics |-> NoStats, edges |-> <<>>, nodes_explored |-> 0, execution_time_ms |-> 0,
      note |-> "" ]

Result(path, cost, optimization, algorithm, g, explored) ==
    [ status |-> "ok", path |-> path, cost |-> cost, optimization |-> optimization,
      algorithm |-> algorithm, statistics |-> RouteStats(g, path),
      edges |-> EdgeDetails(g, path), nodes_explored |-> explored, execution_time_ms |-> 0,
      note |-> "" ]

\* the milliseconds time.time() measures between the start of a call and the
\* end of its search
Times == {1, 2}

\* performance.execution_time_ms of a returned record is the measured time
Timed(r, t) == IF r.status = "ok" THEN [r EXCEPT !.execution_time_ms = t] ELSE r

-----------------------------------------------------------------------------
(* calculate_route *)

StandardAlgorithms == {"dijkstra", "astar", "bellman_ford"}

\* nx.<algorithm>_path and nx.<algorithm>_path_length on g
ShortestPath(g, source, target, key, algorithm) ==
    CASE algorithm = "dijkstra"     -> Dijkstra(g, source, target, key)
      [] algorithm = "astar"        -> AStar(g, source, target, key)
      [] algorithm = "bellman_ford" -> BellmanFord(g, source, target, key)

\* margin_m = max(300.0, straight_m * 0.25) and its (dx, dy)
InitialBuffer(s, e) ==
    DegreesBuffer(Max2(300, StraightM(s, e) \div 4), (s[2] + e[2]) \div 2)

\* a variant of the retry that doubles the margins
GrowBufferByTwo(buf) == <<buf[1] * 2, buf[2] * 2>>

\* dx *= 1.5; dy *= 1.5
GrowBuffer(buf) == <<(buf[1] * 3) \div 2, (buf[2] * 3) \div 2>>

MaxAttempts == 3

RECURSIVE BufferAt(_, _, _)
\* (dx, dy) at the given attempt of the corridor loop
BufferAt(s, e, attempt) ==
    IF attempt = 0 THEN InitialBuffer(s, e) ELSE GrowBuffer(BufferAt(s, e, attempt - 1))

\* the orders _edges_in_bbox can take during one call: the box of the last
\* attempt contains the boxes of the attempts before it
CallOrders(s, e) == RowOrders(CorridorBox(s, e, BufferAt(s, e, MaxAttempts - 1)))

RECURSIVE CorridorAttempt(_, _, _, _, _)
\* the corridor loop: <<attempt at which the loop stops, the subgraph or none>>.
\* A subgraph holding both nodes is searched; after 3 attempts without one the
\* loop ends with path = None
CorridorAttempt(s, e, buf, attempt, prio) ==
    IF attempt >= MaxAttempts THEN [found |-> FALSE, attempt |-> attempt, Gc |-> EmptyGraph]
    ELSE LET Gc == BuildTempGraph(CorridorBox(s, e, buf), prio)
         IN  IF ~ HasNode(Gc, s) \/ ~ HasNode(Gc, e)
             THEN CorridorAttempt(s, e, GrowBuffer(buf), attempt + 1, prio)
             ELSE [found |-> TRUE, attempt |-> attempt, Gc |-> Gc]

\* the record calculate_route returns for the outcome r of the search
SearchResult(r, g_used, optimization, algorithm) ==
    IF ~ r[1] THEN Fail("none")                            \* NetworkXNoPath, caught
    ELSE IF StatsRaise(g_used, r[2]) THEN Fail("none")     \* ValueError, caught
    ELSE Result(r[2], r[3], optimization, algorithm, g_used, Len(g_used.nodes))

\* a variant of the search that runs Dijkstra for a name it does not know
SearchOnAnyName(g_used, s, e, optimization, algorithm) ==
    SearchResult(ShortestPath(g_used, s, e, OptMap(optimization),
                              IF algorithm \in StandardAlgorithms THEN algorithm ELSE "dijkstra"),
                 g_used, optimization, algorithm)

\* the search of calculate_route on the graph g_used, from the choice of the
\* algorithm to the returned record
SearchOn(g_used, s, e, optimization, algorithm) ==
    IF algorithm \notin StandardAlgorithms THEN Fail("none")       \* ValueError, caught
    ELSE SearchResult(ShortestPath(g_used, s, e, OptMap(optimization), algorithm),
                      g_used, optimization, algorithm)

\* G_used: the corridor subgraph that holds both nodes, else self.G
GraphUsed(c) == IF c.found THEN c.Gc ELSE G

\* calculate_route for the snapped nodes s and e; prio is the order in which
\* _edges_in_bbox lists the rows
CalculateRoute(s, e, optimization, algorithm, prio) ==
    SearchOn(GraphUsed(CorridorAttempt(s, e, InitialBuffer(s, e), 0, prio)),
             s, e, optimization, algorithm)

-----------------------------------------------------------------------------
(* the heuristic variants (advanced_routing.py) work on self.G *)

\* self.G[u][v][weight_attr] raises KeyError for a key the bundle lacks
KeyMissing(weight_attr) == weight_attr \notin WeightKeys

\* the first edge lookup happens when the start node is not the end node and
\* has a neighbour other than itself
FirstLookup(s, e) == s # e /\ \E i \in 1..Len(Succ(G, s)) : Succ(G, s)[i] # s

RECURSIVE SelectSeq2(_, _)
\* the members of the sequence ns that are not in the set seen
SelectSeq2(ns, seen) ==
    IF ns = <<>> THEN <<>>
    ELSE IF Head(ns) \in seen THEN SelectSeq2(Tail(ns), seen)
         ELSE <<Head(ns)>> \o SelectSeq2(Tail(ns), seen)

(* greedy_route *)

\* the iteration cap of greedy_route, "max_iterations = 10000" in the code. The
\* model scales the cap down and keeps every comparison against it: the walk
\* along the longer chain of DeepTables runs into it, the shorter one does not
MaxIterations == 5

\* distance_to_goal(node), whole meters
DistanceToGoal(node, end_node) ==
    LET dx == ((node[1] - end_node[1]) * MetersPerUnit * CosPerMille(node[2])) \div 1000
        dy == (node[2] - end_node[2]) * MetersPerUnit
    IN  ISqrt(dx * dx + dy * dy)

\* greedy_score times 10000: 0.7 * edge_cost + 0.3 * (dist_to_goal / 1000)
GreedyScore(cur, n, end_node, key) ==
    7000 * G.attr[<<cur, n>>][key] + 3 * DistanceToGoal(n, end_node)

\* min(neighbors, key=greedy_score): the first neighbour of the least score
GreedyPick(cur, ns, end_node, key) ==
    LET i == CHOOSE i \in 1..Len(ns) :
                 /\ \A j \in 1..Len(ns) :
                        GreedyScore(cur, ns[i], end_node, key) <= GreedyScore(cur, ns[j], end_node, key)
                 /\ \A j \in 1..(i - 1) :
                        GreedyScore(cur, ns[j], end_node, key) > GreedyScore(cur, ns[i], end_node, key)
    IN  ns[i]

RECURSIVE GreedyLoop(_, _, _)
\* s: [path, current, visited, total_cost, iterations]; the state the loop ends
\* in, with ret = TRUE where it returns None from inside
GreedyLoop(end_node, key, s) ==
    IF s.current = end_node \/ s.iterations >= MaxIterations THEN s
    ELSE LET ns == SelectSeq2(Succ(G, s.current), s.visited)
         IN  IF ns = <<>>
             THEN IF Len(s.path) > 1
                  THEN GreedyLoop(end_node, key,
                          [s EXCEPT !.path = SubSeq(@, 1, Len(@) - 1),
                                    !.current = s.path[Len(s.path) - 1],
                                    !.iterations = @ + 1])
                  ELSE [s EXCEPT !.ret = TRUE]
             ELSE LET nx == GreedyPick(s.current, ns, end_node, key)
                  IN  GreedyLoop(end_node, key,
                          [s EXCEPT !.path = Append(@, nx),
                                    !.visited = @ \cup {nx},
                                    !.total_cost = @ + G.attr[<<s.current, nx>>][key],
                                    !.current = nx,
                                    !.iterations = @ + 1])

\* a variant that returns the record wherever the loop has stopped
GreedyOutAnywhere(f, e, optimization) ==
    IF f.ret THEN Fail("none")
    ELSE IF StatsRaise(G, f.path) THEN Fail("raise")
    ELSE Result(f.path, f.total_cost, optimization, "greedy", G, Cardinality(f.visited))

\* what greedy_route returns once the loop has ended in f
GreedyOut(f, e, optimization) ==
    IF f.ret \/ f.current # e THEN Fail("none")
    ELSE IF StatsRaise(G, f.path) THEN Fail("raise")
    ELSE Result(f.path, f.total_cost, optimization, "greedy", G, Cardinality(f.visited))

GreedyRoute(s, e, optimization) ==
    IF KeyMissing(WeightAttr(optimization)) /\ FirstLookup(s, e) THEN Fail("raise")
    ELSE GreedyOut(GreedyLoop(e, WeightAttr(optimization),
                       [path |-> <<s>>, current |-> s, visited |-> {s}, total_cost |-> 0,
                        iterations |-> 0, ret |-> FALSE]),
                   e, optimization)

(* backtracking_route *)

\* float("inf") for max_cost and best_cost
Infinity == -1

CostLess(a, b) == a # Infinity /\ (b = Infinity \/ a < b)
CostLeq(a, b)  == b = Infinity \/ (a # Infinity /\ a <= b)

\* the depth limit of the exhaustive variants, "len(path) > 100" in the code.
\* The model scales the limit down and keeps every comparison against it; the
\* long chains of DeepTables are sized from it.
MaxPathLen == 5

RECURSIVE Backtrack(_, _, _, _, _, _, _)
RECURSIVE BacktrackNeighbors(_, _, _, _, _, _, _, _)

\* best: [path, cost, explored], the nonlocal best_path, best_cost, nodes_explored
Backtrack(end_node, key, max_cost, current, path, cost, best) ==
    LET b1 == [best EXCEPT !.explored = @ + 1]
    IN  IF current = end_node
        THEN IF CostLess(cost, b1.cost) THEN [b1 EXCEPT !.cost = cost, !.path = path] ELSE b1
        ELSE IF CostLeq(b1.cost, cost) \/ CostLess(max_cost, cost) THEN b1
        ELSE IF Len(path) > MaxPathLen THEN b1
        ELSE BacktrackNeighbors(end_node, key, max_cost, current, path, cost, Succ(G, current), b1)

BacktrackNeighbors(end_node, key, max_cost, current, path, cost, ns, best) ==
    IF ns = <<>> THEN best
    ELSE LET nb       == Head(ns)
             new_cost == cost + G.attr[<<current, nb>>][key]
         IN  IF ~ InSeq(nb, path) /\ CostLess(new_cost, best.cost) /\ CostLeq(new_cost, max_cost)
             THEN BacktrackNeighbors(end_node, key, max_cost, current, path, cost, Tail(ns),
                     Backtrack(end_node, key, max_cost, nb, Append(path, nb), new_cost, best))
             ELSE BacktrackNeighbors(end_node, key, max_cost, current, path, cost, Tail(ns), best)

\* what backtracking_route returns for the best path b of the search
BacktrackingOut(b, optimization) ==
    IF b.cost = Infinity THEN Fail("none")
    ELSE IF StatsRaise(G, b.path) THEN Fail("raise")
    ELSE Result(b.path, b.cost, optimization, "backtracking", G, b.explored)

BacktrackingRoute(s, e, optimization, max_cost) ==
    IF KeyMissing(WeightAttr(optimization)) /\ FirstLookup(s, e) THEN Fail("raise")
    ELSE BacktrackingOut(Backtrack(e, WeightAttr(optimization), max_cost, s, <<s>>, 0,
                             [path |-> <<>>, cost |-> Infinity, explored |-> 0]),
                         optimization)

(* branch_and_bound_route: heap entries (cost, node, path), compared as tuples *)

NodeLess(a, b) == a[1] < b[1] \/ (a[1] = b[1] /\ a[2] < b[2])

\* list comparison: the first differing node decides, a proper prefix is less
PathLess(p, q) ==
    \/ \E i \in 1..Min2(Len(p), Len(q)) :
          NodeLess(p[i], q[i]) /\ \A j \in 1..(i - 1) : p[j] = q[j]
    \/ Len(p) < Len(q) /\ \A j \in 1..Len(p) : p[j] = q[j]

EntryLeq(a, b) ==
    \/ a[1] < b[1]
    \/ a[1] = b[1] /\ NodeLess(a[2], b[2])
    \/ a[1] = b[1] /\ a[2] = b[2] /\ (a[3] = b[3] \/ PathLess(a[3], b[3]))

HeapMin(pq) == CHOOSE i \in 1..Len(pq) : \A j \in 1..Len(pq) : EntryLeq(pq[i], pq[j])

RECURSIVE BnBPush(_, _, _, _, _, _)
BnBPush(key, cur, path, cost, ns, s) ==
    IF ns = <<>> THEN s
    ELSE LET nb       == Head(ns)
             new_cost == cost + G.attr[<<cur, nb>>][key]
         IN  IF ~ InSeq(nb, path) /\ CostLess(new_cost, s.best_cost)
             THEN BnBPush(key, cur, path, cost, Tail(ns),
                     [s EXCEPT !.pq = Append(@, <<new_cost, nb, Append(path, nb)>>)])
             ELSE BnBPush(key, cur, path, cost, Tail(ns), s)

RECURSIVE BnBLoop(_, _, _)
\* s: [pq, best_cost, best_path, visited_with_cost, nodes_explored]
BnBLoop(end_node, key, s) ==
    IF s.pq = <<>> THEN s
    ELSE LET i    == HeapMin(s.pq)
             cost == s.pq[i][1]
             cur  == s.pq[i][2]
             path == s.pq[i][3]
             s1   == [s EXCEPT !.pq = RemoveAt(@, i), !.nodes_explored = @ + 1]
         IN  IF cur = end_node
             THEN IF CostLess(cost, s1.best_cost)
                  THEN BnBLoop(end_node, key, [s1 EXCEPT !.best_cost = cost, !.best_path = path])
                  ELSE BnBLoop(end_node, key, s1)
             ELSE IF s1.visited_with_cost[cur] # None /\ s1.visited_with_cost[cur] <= cost
                  THEN BnBLoop(end_node, key, s1)
             ELSE LET s2 == [s1 EXCEPT !.visited_with_cost[cur] = cost]
                  IN  IF CostLeq(s2.best_cost, cost) THEN BnBLoop(end_node, key, s2)
                      ELSE IF Len(path) > MaxPathLen THEN BnBLoop(end_node, key, s2)
                      ELSE BnBLoop(end_node, key, BnBPush(key, cur, path, cost, Succ(G, cur), s2))

\* what branch_and_bound_route returns once the queue is empty
BranchAndBoundOut(f, optimization) ==
    IF f.best_cost = Infinity THEN Fail("none")
    ELSE IF StatsRaise(G, f.best_path) THEN Fail("raise")
    ELSE Result(f.best_path, f.best_cost, optimization, "branch_and_bound", G, f.nodes_explored)

BranchAndBoundRoute(s, e, optimization) ==
    IF KeyMissing(WeightAttr(optimization)) /\ FirstLookup(s, e) THEN Fail("raise")
    ELSE BranchAndBoundOut(
             BnBLoop(e, WeightAttr(optimization),
                 [pq |-> <<(<<0, s, <<s>>>>)>>, best_cost |-> Infinity, best_path |-> <<>>,
                  visited_with_cost |-> NoEntries(G), nodes_explored |-> 0]),
             optimization)

-----------------------------------------------------------------------------
(* k_shortest_paths *)

RECURSIVE SimplePathsFrom(_, _, _)
\* the simple paths of g that extend path to end_node
SimplePathsFrom(g, path, end_node) ==
    LET cur == path[Len(path)]
    IN  IF cur = end_node THEN {path}
        ELSE UNION { SimplePathsFrom(g, Append(path, Succ(g, cur)[i]), end_node) :
                        i \in {j \in 1..Len(Succ(g, cur)) : ~ InSeq(Succ(g, cur)[j], path)} }

SimplePaths(g, s, e) == SimplePathsFrom(g, <<s>>, e)

RECURSIVE SortedPaths(_, _, _)
\* nx.shortest_simple_paths: the simple paths by ascending cost (data.get(weight, 1));
\* paths of one cost are listed in list order
SortedPaths(g, paths, key) ==
    IF paths = {} THEN <<>>
    ELSE LET p == CHOOSE p \in paths : \A q \in paths :
                     \/ PathCost(g, p, key) < PathCost(g, q, key)
                     \/ PathCost(g, p, key) = PathCost(g, q, key) /\ (p = q \/ PathLess(p, q))
         IN  <<p>> \o SortedPaths(g, paths \ {p}, key)

\* the first k paths the generator yields
FirstK(paths, k) == SubSeq(paths, 1, Min2(k, Len(paths)))

\* the routes list k_shortest_paths returns; any exception empties it
\* the routes list built from the first k paths of the generator
KRoutes(paths, key, optimization) ==
    IF \E i \in 1..Len(paths) :
           \/ KeyMissing(key) /\ Len(paths[i]) > 1      \* KeyError in the cost sum
           \/ StatsRaise(G, paths[i])                   \* ValueError in the statistics
    THEN <<>>
    ELSE [ i \in 1..Len(paths) |->
             [ path |-> paths[i], cost |-> PathCost(G, paths[i], key), rank |-> i,
               optimization |-> optimization, algorithm |-> "k_shortest_paths",
               statistics |-> RouteStats(G, paths[i]), edges |-> EdgeDetails(G, paths[i]) ] ]

KShortestPaths(s, e, k, optimization) ==
    KRoutes(FirstK(SortedPaths(G, SimplePaths(G, s, e), WeightAttr(optimization)), k),
            WeightAttr(optimization), optimization)

-----------------------------------------------------------------------------
(* api.py: /route and /compare *)

HeuristicAlgorithms == {"greedy", "backtracking", "branch_and_bound"}

\* the call of the heuristic variant the handlers make
RunHeuristic(s, e, optimization, algorithm) ==
    CASE algorithm = "greedy"           -> GreedyRoute(s, e, optimization)
      [] algorithm = "backtracking"     -> BacktrackingRoute(s, e, optimization, Infinity)
      [] algorithm = "branch_and_bound" -> BranchAndBoundRoute(s, e, optimization)

\* result["algorithm"] and result["note"] of a fallback result d; label is the
\* algorithm label the handler writes
Fallback(r, d, label) ==
    IF r.status = "ok" THEN r
    ELSE IF d.status = "ok" THEN [d EXCEPT !.algorithm = label, !.note = "fallback: Dijkstra"]
    ELSE d

\* compute_route up to "if not result": the result record the response is built from
RouteResult(s, e, optimization, algorithm, prio) ==
    IF algorithm \in HeuristicAlgorithms
    THEN Fallback(RunHeuristic(s, e, optimization, algorithm),
                  CalculateRoute(s, e, optimization, "dijkstra", prio),
                  algorithm \o "_fallback_dijkstra")
    ELSE CalculateRoute(s, e, optimization, algorithm, prio)

\* the features of the /route response, one per edge of the route
RouteFeatures(r) ==
    [ i \in 1..Len(r.edges) |->
        [ length |-> r.edges[i].length, incidents_count |-> r.edges[i].incidents_count,
          risk_score |-> r.edges[i].risk_score, optimization |-> r.optimization,
          algorithm |-> r.algorithm ] ]

\* the features of a /compare entry, one per edge of the route
CompareFeatures(r, algo) ==
    [ i \in 1..Len(r.edges) |->
        [ length |-> r.edges[i].length, incidents_count |-> r.edges[i].incidents_count,
          risk_score |-> r.edges[i].risk_score, algorithm |-> algo ] ]

\* the /route response for the result r
RouteResponse(r) ==
    IF r.status # "ok"
    THEN [ type |-> "FeatureCollection", features |-> <<>>, has_properties |-> FALSE,
           properties |-> [statistics |-> NoStats, cost |-> 0, optimization |-> "",
                           algorithm |-> ""] ]
    ELSE [ type |-> "FeatureCollection", features |-> RouteFeatures(r),
           has_properties |-> TRUE,
           properties |-> [statistics |-> r.statistics, cost |-> r.cost,
                           optimization |-> r.optimization, algorithm |-> r.algorithm] ]

ComputeRoute(s, e, optimization, algorithm, prio) ==
    RouteResponse(RouteResult(s, e, optimization, algorithm, prio))

\* the result /compare obtains for one name of the algorithms list
CompareResult(s, e, optimization, algo, prio) ==
    IF algo \in HeuristicAlgorithms
    THEN Fallback(RunHeuristic(s, e, optimization, algo),
                  CalculateRoute(s, e, optimization, "dijkstra", prio), algo)
    ELSE CalculateRoute(s, e, optimization, algo, prio)

\* routes.append(...): an entry is appended only for a name that yields a result
CompareAppend(routes, algo, r) ==
    IF r.status = "ok"
    THEN Append(routes, [ algorithm |-> algo, features |-> CompareFeatures(r, algo),
                          statistics |-> r.statistics, cost |-> r.cost, note |-> r.note ])
    ELSE routes

RECURSIVE CompareEntries(_, _, _, _, _, _)
\* the loop over the algorithms list
CompareEntries(s, e, optimization, algo_list, prio, routes) ==
    IF algo_list = <<>> THEN routes
    ELSE CompareEntries(s, e, optimization, Tail(algo_list), prio,
            CompareAppend(routes, Head(algo_list),
                          CompareResult(s, e, optimization, Head(algo_list), prio)))

\* the /compare response
CompareRoutes(s, e, optimization, algo_list, prio) ==
    [ type |-> "Comparison", optimization |-> optimization,
      routes |-> CompareEntries(s, e, optimization, algo_list, prio, <<>>) ]

-----------------------------------------------------------------------------
(* the edge tables the router is built from *)

\* rows of an enumerated edge table
MaxRows == 3

\* node coordinates (millidegrees)
S  == <<0, 0>>
T  == <<1, 0>>
B  == <<4, 0>>
M1 == <<5, 0>>
M2 == <<6, 0>>

\* the bounds of a geometry that runs straight from o to d
TightBBox(o, d) == <<Min2(o[1], d[1]), Min2(o[2], d[2]), Max2(o[1], d[1]), Max2(o[2], d[2])>>

\* the bounds of a geometry that bulges west millidegrees beyond its endpoints
Bulged(b, west) == <<b[1] - west, b[2], b[3], b[4]>>

\* a CSV row: a street of its straight length, risk_score and combined_cost
\* both equal to score
MkRow(o, d, score, inc, west) ==
    [ origin |-> o, destination |-> d, length |-> StraightM(o, d),
      risk_score |-> score, combined_cost |-> score, incidents_count |-> inc,
      bbox |-> Bulged(TightBBox(o, d), west) ]

Scores == {0, 1}

Streets == {<<S, T>>, <<S, B>>, <<B, T>>, <<T, S>>}

\* straight streets with every count present
PlainRows == {MkRow(od[1], od[2], sc, 1 - sc, 0) : od \in Streets, sc \in Scores}

\* a detour S -> M1 -> M2 -> T that leaves the corridor of (S, T), with a second,
\* curved street from M1 to M2
DetourRows ==
    { MkRow(S, M1, 1, 0, 0), MkRow(M1, M2, 1, 0, 0), MkRow(M1, M2, 0, 1, 3),
      MkRow(M2, T, 1, 0, 0) }

\* rows whose incidents_count cell is empty
MissingRows == { MkRow(S, T, 1, NaN, 0), MkRow(S, B, 0, NaN, 0), MkRow(B, T, 0, 0, 0) }

TablesOf(rows) == UNION {[1..n -> rows] : n \in 1..MaxRows}

\* the i-th node of a long one-way chain that starts at S
ChainNode(i) == IF i = 0 THEN S ELSE <<10 + i, 0>>

\* a chain of n free streets from S to ChainNode(n), a street of cost 1 from S
\* straight to ChainNode(n), a free street from there to T, and optionally a
\* street of cost 2 from S to T
ChainTable(n, direct) ==
    [i \in 1..n |-> MkRow(ChainNode(i - 1), ChainNode(i), 0, 0, 0)]
        \o << MkRow(S, ChainNode(n), 1, 0, 0), MkRow(ChainNode(n), T, 0, 0, 0) >>
        \o (IF direct THEN << MkRow(S, T, 2, 0, 0) >> ELSE << >>)

\* chains about as long as the depth limit of the exhaustive variants
DeepTables == {ChainTable(n, direct) : n \in {MaxPathLen - 1, MaxPathLen}, direct \in BOOLEAN}

\* a street of cost 1 from S to T and a free way round through M1 and M2, whose
\* middle street lies outside the corridor of (S, T)
CheapDetour ==
    << MkRow(S, T, 1, 0, 0), MkRow(S, M1, 0, 0, 0), MkRow(M1, M2, 0, 0, 0), MkRow(M2, T, 0, 0, 0) >>

Tables ==
    TablesOf(PlainRows) \cup TablesOf(DetourRows) \cup TablesOf(MissingRows) \cup DeepTables
        \cup {CheapDetour}

\* the state of the router after __init__ has read the table rows
Built(rows) ==
    /\ df = rows
    /\ G = BuildGraph(rows)
    /\ edge_bounds = BuildEdgeBounds(rows)
    /\ min_ratio = BuildMinRatio(rows)
    /\ nodes_list = BuildGraph(rows).nodes
    /\ rtree \in BOOLEAN

-----------------------------------------------------------------------------
(* queries *)

Idle ==
    [ op |-> "idle", origin |-> <<>>, destination |-> <<>>, start |-> <<>>, end |-> <<>>,
      optimization |-> "", algorithm |-> "", k |-> 0, out |-> <<>> ]

Query(op, o, d, s, e, optimization, algorithm, k, out) ==
    [ op |-> op, origin |-> o, destination |-> d, start |-> s, end |-> e,
      optimization |-> optimization, algorithm |-> algorithm, k |-> k, out |-> out ]

\* the (origin, destination) coordinates of the requests
QueryPoints == {<< <<0, 0>>, <<1, 0>> >>, << <<2, 0>>, <<2, 0>> >>}

\* "fastest" is neither in opt_map nor the suffix of a weight key
Optimizations == {"distance", "combined", "incidents", "incident", "fastest"}

AlgorithmNames == StandardAlgorithms \cup HeuristicAlgorithms \cup {"k_shortest"}

AlgorithmLists ==
    { <<"dijkstra", "greedy", "branch_and_bound">>, <<"backtracking", "astar">>,
      <<"bellman_ford", "k_shortest">> }

Ks == {1, 3}

\* a variant of the frame in which _build_temp_graph_for_bbox adds the candidate
\* rows to self.G itself instead of a fresh nx.DiGraph()
FrameBuildsIntoG ==
    /\ UNCHANGED <<df, edge_bounds, min_ratio, nodes_list, rtree, calls>>
    /\ G' = IF last'.op = "build_temp_graph" THEN last'.out ELSE G

\* the queries assign none of the router's tables
Frame == UNCHANGED <<df, G, edge_bounds, min_ratio, nodes_list, rtree, calls>>

\* find_nearest_node(lon, lat)
DoFindNearestNode ==
    /\ last.op = "idle"
    /\ \E q \in QueryPoints : \E s \in FindNearestNode(q[2]) :
          last' = Query("find_nearest_node", q[2], q[2], s, s, "", "", 0, s)
    /\ Frame

\* _build_temp_graph_for_bbox(bbox), for the box of an attempt of the corridor loop
DoBuildTempGraph ==
    /\ last.op = "idle"
    /\ \E q \in QueryPoints, attempt \in 0..(MaxAttempts - 1) :
         \E s \in FindNearestNode(q[1]), e \in FindNearestNode(q[2]) :
           \E prio \in CallOrders(s, e) :
              last' = Query("build_temp_graph", q[1], q[2], s, e, "", "", attempt,
                          BuildTempGraph(CorridorBox(s, e, BufferAt(s, e, attempt)), prio))
    /\ Frame

\* calculate_route(origin, destination, optimization, algorithm)
DoCalculateRoute ==
    /\ last.op = "idle"
    /\ \E q \in QueryPoints, opt \in Optimizations, alg \in StandardAlgorithms :
         \E s \in FindNearestNode(q[1]), e \in FindNearestNode(q[2]) :
           \E prio \in CallOrders(s, e), t \in Times :
              last' = Query("calculate_route", q[1], q[2], s, e, opt, alg, 0,
                          Timed(CalculateRoute(s, e, opt, alg, prio), t))
    /\ Frame

\* greedy_route(origin, destination, optimization)
DoGreedyRoute ==
    /\ last.op = "idle"
    /\ \E q \in QueryPoints, opt \in Optimizations :
         \E s \in FindNearestNode(q[1]), e \in FindNearestNode(q[2]), t \in Times :
            last' = Query("greedy_route", q[1], q[2], s, e, opt, "greedy", 0,
                          Timed(GreedyRoute(s, e, opt), t))
    /\ Frame

\* backtracking_route(origin, destination, optimization)
DoBacktrackingRoute ==
    /\ last.op = "idle"
    /\ \E q \in QueryPoints, opt \in Optimizations :
         \E s \in FindNearestNode(q[1]), e \in FindNearestNode(q[2]), t \in Times :
            last' = Query("backtracking_route", q[1], q[2], s, e, opt, "backtracking", 0,
                          Timed(BacktrackingRoute(s, e, opt, Infinity), t))
    /\ Frame

\* branch_and_bound_route(origin, destination, optimization)
DoBranchAndBoundRoute ==
    /\ last.op = "idle"
    /\ \E q \in QueryPoints, opt \in Optimizations :
         \E s \in FindNearestNode(q[1]), e \in FindNearestNode(q[2]), t \in Times :
            last' = Query("branch_and_bound_route", q[1], q[2], s, e, opt, "branch_and_bound",
                          0, Timed(BranchAndBoundRoute(s, e, opt), t))
    /\ Frame

\* k_shortest_paths(origin, destination, k, optimization)
DoKShortestPaths ==
    /\ last.op = "idle"
    /\ \E q \in QueryPoints, opt \in Optimizations, k \in Ks :
         \E s \in FindNearestNode(q[1]), e \in FindNearestNode(q[2]) :
            last' = Query("k_shortest_paths", q[1], q[2], s, e, opt, "k_shortest_paths", k,
                          KShortestPaths(s, e, k, opt))
    /\ Frame

\* GET /route
DoRoute ==
    /\ last.op = "idle"
    /\ \E q \in QueryPoints, opt \in Optimizations, alg \in AlgorithmNames :
         \E s \in FindNearestNode(q[1]), e \in FindNearestNode(q[2]) :
           \E prio \in CallOrders(s, e) :
              last' = Query("route", q[1], q[2], s, e, opt, alg, 0,
                          ComputeRoute(s, e, opt, alg, prio))
    /\ Frame

\* GET /compare
DoCompare ==
    /\ last.op = "idle"
    /\ \E q \in QueryPoints, opt \in Optimizations, algos \in AlgorithmLists :
         \E s \in FindNearestNode(q[1]), e \in FindNearestNode(q[2]) :
           \E prio \in CallOrders(s, e) :
              last' = Query("compare", q[1], q[2], s, e, opt, algos, 0,
                          CompareRoutes(s, e, opt, algos, prio))
    /\ Frame

\* the call has returned; the router waits for the next query
Return ==
    /\ last.op # "idle"
    /\ last' = Idle
    /\ Frame

Init == (\E rows \in Tables : Built(rows)) /\ last = Idle /\ calls = <<>>

Next ==
    \/ DoFindNearestNode
    \/ DoBuildTempGraph
    \/ DoCalculateRoute
    \/ DoGreedyRoute
    \/ DoBacktrackingRoute
    \/ DoBranchAndBoundRoute
    \/ DoKShortestPaths
    \/ DoRoute
    \/ DoCompare
    \/ Return

Spec == Init /\ [][Next]_vars

-----------------------------------------------------------------------------
(* the construction of the router, row by row *)

\* rows as pd.read_csv delivers them: a length or a score cell may be empty
WideRows ==
    { [MkRow(od[1], od[2], sc, 1, 0) EXCEPT !.length = len] :
         od \in {<<S, T>>, <<T, S>>}, sc \in {0, 1, NaN}, len \in {MetersPerUnit, NaN} }
       \cup MissingRows

\* the value of a cell whose text float() or wkt.loads does not accept
Unparsable == << >>

\* rows with an unparsable origin, destination or geometry cell
BadRows ==
    { [MkRow(S, T, 1, 0, 0) EXCEPT !.origin = Unparsable],
      [MkRow(T, S, 1, 0, 0) EXCEPT !.destination = Unparsable],
      [MkRow(S, T, 1, 0, 0) EXCEPT !.bbox = Unparsable] }

\* every geometry cell of the table is well-known text
GeometryParsed(rows) == \A i \in 1..Len(rows) : rows[i].bbox # Unparsable

\* both coordinate cells of the row parse
CoordinatesParsed(row) == row.origin # Unparsable /\ row.destination # Unparsable

\* __init__ after pd.read_csv: the table is read, the graph and the
\* accelerators are empty
InitBuild ==
    /\ df \in TablesOf(WideRows \cup BadRows)
    /\ G = EmptyGraph
    /\ edge_bounds = <<>>
    /\ min_ratio = [combined |-> <<0, 1>>, risk |-> <<0, 1>>, incidents |-> <<0, 1>>]
    /\ nodes_list = <<>>
    /\ rtree = FALSE
    /\ last = [Idle EXCEPT !.op = "build_graph"]
    /\ calls = <<>>

\* one iteration of "for idx, row in self.df.iterrows()"; last.k rows are done
IngestRow ==
    /\ last.op = "build_graph"
    /\ last.k < Len(df)
    /\ GeometryParsed(df)
    /\ CoordinatesParsed(df[last.k + 1])
    /\ LET row == df[last.k + 1]
       IN  /\ G' = AddEdge(G, row.origin, row.destination, EdgeAttrs(row))
           /\ edge_bounds' = Append(edge_bounds, row.bbox)
           /\ min_ratio' =
                [ combined  |-> MinRatioFrom(<<row>>, 1, "combined_cost", min_ratio.combined),
                  risk      |-> MinRatioFrom(<<row>>, 1, "risk_score", min_ratio.risk),
                  incidents |-> MinRatioFrom(<<row>>, 1, "incidents_count", min_ratio.incidents) ]
    /\ last' = [last EXCEPT !.k = @ + 1]
    /\ UNCHANGED <<df, nodes_list, rtree, calls>>

\* the end of _build_graph and _build_spatial_indexes: the node list is taken
\* from the graph, the indexes exist when rtree can be imported
FinishBuild ==
    /\ last.op = "build_graph"
    /\ last.k = Len(df)
    /\ nodes_list' = G.nodes
    /\ rtree' \in BOOLEAN
    /\ last' = Idle
    /\ UNCHANGED <<df, G, edge_bounds, min_ratio, calls>>

\* self.df["geometry"].apply(wkt.loads) raises on the first cell that is not
\* well-known text: __init__ ends before _build_graph is called
GeometryRaises ==
    /\ last.op = "build_graph"
    /\ last.k = 0
    /\ ~ GeometryParsed(df)
    /\ last' = [last EXCEPT !.op = "raise"]
    /\ UNCHANGED <<df, G, edge_bounds, min_ratio, nodes_list, rtree, calls>>

\* _parse_coordinate raises ValueError on the row's origin or destination:
\* nothing in _build_graph or __init__ catches it
CoordinateRaises ==
    /\ last.op = "build_graph"
    /\ last.k < Len(df)
    /\ GeometryParsed(df)
    /\ ~ CoordinatesParsed(df[last.k + 1])
    /\ last' = [last EXCEPT !.op = "raise"]
    /\ UNCHANGED <<df, G, edge_bounds, min_ratio, nodes_list, rtree, calls>>

NextBuild == IngestRow \/ FinishBuild \/ GeometryRaises \/ CoordinateRaises

SpecBuild == InitBuild /\ [][NextBuild]_vars

-----------------------------------------------------------------------------
(* calculate_route step by step, for several callers of one router *)

\* the callers that share the router
Procs == {1, 2}

\* the locals of a call that has not started; bufs lists the (dx, dy) of the
\* corridors the call has built so far
NoCall ==
    [ pc |-> "idle", origin |-> <<>>, destination |-> <<>>, optimization |-> "",
      algorithm |-> "", start |-> <<>>, end |-> <<>>, prio |-> <<>>, buf |-> <<0, 0>>,
      attempt |-> 0, bufs |-> <<>>, Gc |-> EmptyGraph, G_used |-> "", out |-> <<>> ]

\* a table of one street from S to T whose geometry lies at longitude x, away
\* from the coordinates of its origin and destination columns
OffsetStreet(x) == << [MkRow(S, T, 1, 0, 0) EXCEPT !.bbox = <<x, 0, x, 0>>] >>

\* tables whose street enters the corridor at the first, second and third
\* build and not at all, a street in both directions, and a street whose
\* geometry bulges out of the first corridor
StepTables ==
    {OffsetStreet(x) : x \in {0, 4, 6, 9}}
        \cup { << MkRow(S, T, 1, 0, 0), MkRow(T, S, 0, 1, 0) >>, << MkRow(S, T, 1, 0, 3) >> }

\* start_node not in Gc or end_node not in Gc
LacksNode(g, s, e) == ~ HasNode(g, s) \/ ~ HasNode(g, e)

\* a variant in which the optimization of a call is kept in a field of the
\* router, where a second call in progress has overwritten it
SharedOptimization(p) ==
    LET q == CHOOSE q \in Procs : q # p
    IN  IF calls[q].pc \in {"loop", "search"} THEN calls[q].optimization
        ELSE calls[p].optimization

\* the optimization a call searches with is its own argument
CallOptimization(p) == calls[p].optimization

\* the algorithm names of the calls; "simplex" is a name calculate_route does
\* not know
StepAlgorithms == {"dijkstra", "astar", "simplex"}

\* calculate_route is called with its arguments
Enter(p) ==
    /\ calls[p].pc = "idle"
    /\ \E q \in QueryPoints, opt \in {"distance", "combined"}, alg \in StepAlgorithms :
          calls' = [calls EXCEPT ![p] =
                      [NoCall EXCEPT !.pc = "snap", !.origin = q[1], !.destination = q[2],
                                     !.optimization = opt, !.algorithm = alg]]
    /\ UNCHANGED <<df, G, edge_bounds, min_ratio, nodes_list, rtree, last>>

\* the two find_nearest_node calls and the first (dx, dy); prio is the order
\* in which _edges_in_bbox lists the rows during this call
Snap(p) ==
    /\ calls[p].pc = "snap"
    /\ \E s \in FindNearestNode(calls[p].origin), e \in FindNearestNode(calls[p].destination) :
         \E prio \in CallOrders(s, e) :
            calls' = [calls EXCEPT ![p] =
                        [@ EXCEPT !.pc = "loop", !.start = s, !.end = e, !.prio = prio,
                                  !.buf = InitialBuffer(s, e)]]
    /\ UNCHANGED <<df, G, edge_bounds, min_ratio, nodes_list, rtree, last>>

\* one pass of "while attempt < 3 and path is None" up to the test of the nodes
BuildCorridor(p) ==
    /\ calls[p].pc = "loop"
    /\ calls[p].attempt < MaxAttempts
    /\ LET c  == calls[p]
           Gc == BuildTempGraph(CorridorBox(c.start, c.end, c.buf), c.prio)
       IN  calls' = [calls EXCEPT ![p] =
                IF LacksNode(Gc, c.start, c.end)
                THEN [c EXCEPT !.bufs = Append(@, c.buf), !.Gc = Gc,
                               !.attempt = @ + 1, !.buf = GrowBuffer(@)]
                ELSE [c EXCEPT !.bufs = Append(@, c.buf), !.Gc = Gc, !.pc = "search"]]
    /\ UNCHANGED <<df, G, edge_bounds, min_ratio, nodes_list, rtree, last>>

\* the search on the corridor subgraph and the record returned for it
SearchCorridor(p) ==
    /\ calls[p].pc = "search"
    /\ \E t \in Times :
          calls' = [calls EXCEPT ![p] =
                      [@ EXCEPT !.pc = "done", !.G_used = "Gc", !.attempt = @ + 1,
                                !.out = Timed(SearchOn(calls[p].Gc, calls[p].start, calls[p].end,
                                                       CallOptimization(p), calls[p].algorithm), t)]]
    /\ UNCHANGED <<df, G, edge_bounds, min_ratio, nodes_list, rtree, last>>

\* the loop has ended with path = None: the search on self.G
SearchFull(p) ==
    /\ calls[p].pc = "loop"
    /\ calls[p].attempt >= MaxAttempts
    /\ \E t \in Times :
          calls' = [calls EXCEPT ![p] =
                      [@ EXCEPT !.pc = "done", !.G_used = "G",
                                !.out = Timed(SearchOn(G, calls[p].start, calls[p].end,
                                                       CallOptimization(p), calls[p].algorithm), t)]]
    /\ UNCHANGED <<df, G, edge_bounds, min_ratio, nodes_list, rtree, last>>

\* the caller has taken the record; its locals are gone
Leave(p) ==
    /\ calls[p].pc = "done"
    /\ calls' = [calls EXCEPT ![p] = NoCall]
    /\ UNCHANGED <<df, G, edge_bounds, min_ratio, nodes_list, rtree, last>>

InitSteps ==
    /\ \E rows \in StepTables : Built(rows)
    /\ last = Idle
    /\ calls = [p \in Procs |-> NoCall]

NextSteps ==
    \E p \in Procs :
       \/ Enter(p)
       \/ Snap(p)
       \/ BuildCorridor(p)
       \/ SearchCorridor(p)
       \/ SearchFull(p)
       \/ Leave(p)

SpecSteps == InitSteps /\ [][NextSteps]_vars

-----------------------------------------------------------------------------
(* greedy_route step by step: calls[1] holds the locals of the call *)

\* a table on which the street of the least score ends blind: from S the walk
\* takes the street to B first, returns, and takes the street to T
DeadEnd == << MkRow(S, B, 1, 0, 0), MkRow(S, T, 3, 0, 0) >>

\* the locals of greedy_route before the call
NoGreedy ==
    [ pc |-> "idle", optimization |-> "", start |-> <<>>, end |-> <<>>, path |-> <<>>,
      current |-> <<>>, visited |-> {}, total_cost |-> 0, iterations |-> 0, out |-> <<>> ]

\* neighbors: the successors of current that are not in visited
Unvisited(c) == SelectSeq2(Succ(G, c.current), c.visited)

\* the snapping of the two points and the initial values of the locals
GreedyCall ==
    /\ calls[1].pc = "idle"
    /\ \E q \in QueryPoints, opt \in Optimizations :
         \E s \in FindNearestNode(q[1]), e \in FindNearestNode(q[2]) :
            calls' = [calls EXCEPT ![1] =
                        [NoGreedy EXCEPT !.pc = "loop", !.optimization = opt, !.start = s,
                                         !.end = e, !.path = <<s>>, !.current = s,
                                         !.visited = {s}]]
    /\ UNCHANGED <<df, G, edge_bounds, min_ratio, nodes_list, rtree, last>>

\* the list comprehension reads self.G[current][n][weight_attr] of a key the
\* bundle lacks: KeyError leaves the function
GreedyRaise ==
    /\ calls[1].pc = "loop"
    /\ calls[1].current # calls[1].end /\ calls[1].iterations < MaxIterations
    /\ Unvisited(calls[1]) # <<>>
    /\ KeyMissing(WeightAttr(calls[1].optimization))
    /\ calls' = [calls EXCEPT ![1] = [@ EXCEPT !.pc = "done", !.out = Fail("raise")]]
    /\ UNCHANGED <<df, G, edge_bounds, min_ratio, nodes_list, rtree, last>>

\* an iteration that appends the neighbour of the least score
GreedyForward ==
    /\ calls[1].pc = "loop"
    /\ calls[1].current # calls[1].end /\ calls[1].iterations < MaxIterations
    /\ Unvisited(calls[1]) # <<>>
    /\ ~ KeyMissing(WeightAttr(calls[1].optimization))
    /\ LET c  == calls[1]
           nx == GreedyPick(c.current, Unvisited(c), c.end, WeightAttr(c.optimization))
       IN  calls' = [calls EXCEPT ![1] =
                       [c EXCEPT !.path = Append(@, nx),
                                 !.visited = @ \cup {nx},
                                 !.total_cost = @ + G.attr[<<c.current, nx>>][WeightAttr(c.optimization)],
                                 !.current = nx,
                                 !.iterations = @ + 1]]
    /\ UNCHANGED <<df, G, edge_bounds, min_ratio, nodes_list, rtree, last>>

\* a variant of the backtrack step that leaves iterations as it is
GreedyBacktrackUncounted ==
    /\ calls[1].pc = "loop"
    /\ calls[1].current # calls[1].end /\ calls[1].iterations < MaxIterations
    /\ Unvisited(calls[1]) = <<>>
    /\ Len(calls[1].path) > 1
    /\ calls' = [calls EXCEPT ![1] =
                   [@ EXCEPT !.path = SubSeq(@, 1, Len(@) - 1),
                             !.current = calls[1].path[Len(calls[1].path) - 1]]]
    /\ UNCHANGED <<df, G, edge_bounds, min_ratio, nodes_list, rtree, last>>

\* an iteration without neighbours and with len(path) > 1: path.pop()
GreedyBacktrack ==
    /\ calls[1].pc = "loop"
    /\ calls[1].current # calls[1].end /\ calls[1].iterations < MaxIterations
    /\ Unvisited(calls[1]) = <<>>
    /\ Len(calls[1].path) > 1
    /\ calls' = [calls EXCEPT ![1] =
                   [@ EXCEPT !.path = SubSeq(@, 1, Len(@) - 1),
                             !.current = calls[1].path[Len(calls[1].path) - 1],
                             !.iterations = @ + 1]]
    /\ UNCHANGED <<df, G, edge_bounds, min_ratio, nodes_list, rtree, last>>

\* an iteration without neighbours at the start node: return None
GreedyStuck ==
    /\ calls[1].pc = "loop"
    /\ calls[1].current # calls[1].end /\ calls[1].iterations < MaxIterations
    /\ Unvisited(calls[1]) = <<>>
    /\ Len(calls[1].path) = 1
    /\ calls' = [calls EXCEPT ![1] = [@ EXCEPT !.pc = "done", !.out = Fail("none")]]
    /\ UNCHANGED <<df, G, edge_bounds, min_ratio, nodes_list, rtree, last>>

\* the loop condition is false: None when the end node was not reached, else
\* the record with total_cost and the statistics of path
GreedyReturn ==
    /\ calls[1].pc = "loop"
    /\ calls[1].current = calls[1].end \/ calls[1].iterations >= MaxIterations
    /\ \E t \in Times :
          calls' = [calls EXCEPT ![1] =
                      [@ EXCEPT !.pc = "done",
                                !.out = Timed(IF calls[1].current # calls[1].end THEN Fail("none")
                                              ELSE IF StatsRaise(G, calls[1].path) THEN Fail("raise")
                                              ELSE Result(calls[1].path, calls[1].total_cost,
                                                          calls[1].optimization, "greedy", G,
                                                          Cardinality(calls[1].visited)), t)]]
    /\ UNCHANGED <<df, G, edge_bounds, min_ratio, nodes_list, rtree, last>>

\* the caller has taken the outcome
GreedyLeave ==
    /\ calls[1].pc = "done"
    /\ calls' = [calls EXCEPT ![1] = NoGreedy]
    /\ UNCHANGED <<df, G, edge_bounds, min_ratio, nodes_list, rtree, last>>

\* the tables of the stepwise walk: the long chains, the detour, the blind
\* street, a street with an empty count, and two tables on which S has no way
\* to T
GreedyTables ==
    DeepTables
        \cup { CheapDetour, DeadEnd, << MkRow(S, T, 1, NaN, 0) >>, << MkRow(T, S, 0, 1, 0) >>,
               << MkRow(S, B, 0, 1, 0), MkRow(T, S, 0, 1, 0) >> }

InitGreedy ==
    /\ \E rows \in GreedyTables : Built(rows)
    /\ last = Idle
    /\ calls = << NoGreedy >>

\* the steps of a call that is running
GreedyRun ==
    \/ GreedyRaise
    \/ GreedyForward
    \/ GreedyBacktrack
    \/ GreedyStuck
    \/ GreedyReturn

NextGreedy == GreedyCall \/ GreedyRun \/ GreedyLeave

SpecGreedy == InitGreedy /\ [][NextGreedy]_vars

\* a call that is running goes on running: the interpreter executes the next
\* statement of the function; nothing is assumed about when callers call
FairGreedy == SpecGreedy /\ WF_vars(GreedyRun)

-----------------------------------------------------------------------------
(* properties *)

\* every row of the table has its incidents_count
NoMissingCount == \A i \in 1..Len(df) : ~ IsNaN(df[i].incidents_count)

\* the edge bundles hold the key f"weight_{optimization}"
KnownKey(optimization) == WeightAttr(optimization) \in WeightKeys

\* the simple paths of self.G from s to e of at most n nodes
PathsWithin(s, e, n) == {p \in SimplePaths(G, s, e) : Len(p) <= n}

\* some path of self.G leads from s to e
Reachable(s, e) == SimplePaths(G, s, e) # {}

\* p is a simple path of self.G from s to e
IsSimplePath(p, s, e) == p \in SimplePaths(G, s, e)

\* C1: on a table with every count present, calculate_route returns the same
\* cost under 'dijkstra', 'astar' and 'bellman_ford' for the same endpoints and
\* optimization, or no result under all three
C1_SameCost ==
    (last.op = "calculate_route" /\ NoMissingCount) =>
        \A prio \in CallOrders(last.start, last.end) :
            Timed(CalculateRoute(last.start, last.end, last.optimization, last.algorithm, prio),
                  last.out.execution_time_ms) = last.out
            => \A alg \in StandardAlgorithms :
                 LET r == CalculateRoute(last.start, last.end, last.optimization, alg, prio)
                 IN  r.status = last.out.status /\ r.cost = last.out.cost

\* C2: the heuristic of an A* query never exceeds the least cost of a path to
\* the target: h(n, end) <= cost of every path of self.G from n to end, for
\* every node n, under the weight key of the query
C2_Admissible ==
    (last.op = "calculate_route" /\ last.algorithm = "astar") =>
        \A n \in Range(G.nodes) : \A p \in SimplePaths(G, n, last.end) :
            HScaled(n, last.end, OptMap(last.optimization))
                <= PathCost(G, p, OptMap(last.optimization)) * HRatio(OptMap(last.optimization))[2]

\* C3: on a table with every count present, calculate_route returns no result
\* only when the end node cannot be reached from the start node in self.G
C3_NoneOnlyUnreachable ==
    (last.op = "calculate_route" /\ NoMissingCount /\ last.out.status # "ok")
        => ~ Reachable(last.start, last.end)

\* C4: when the heuristic variant yields no result and Dijkstra yields one,
\* /route answers under the algorithm name the caller requested, and /compare
\* lists the entry under that name with note "fallback: Dijkstra"
C4_FallbackLabel ==
    /\ ( /\ last.op = "route"
         /\ last.algorithm \in HeuristicAlgorithms
         /\ RunHeuristic(last.start, last.end, last.optimization, last.algorithm).status # "ok"
         /\ last.out.has_properties )
       => last.out.properties.algorithm = last.algorithm
    /\ last.op = "compare" =>
         \A i \in 1..Len(last.out.routes) :
            LET entry == last.out.routes[i]
            IN  ( /\ entry.algorithm \in HeuristicAlgorithms
                  /\ RunHeuristic(last.start, last.end, last.optimization,
                                  entry.algorithm).status # "ok" )
                => entry.note = "fallback: Dijkstra"

\* C5: on a table with every count present and for a weight key the bundles
\* hold, branch_and_bound_route returns a result whenever backtracking_route
\* does, at a cost not above that of backtracking_route nor that of greedy_route
C5_BnBLeastOfVariants ==
    (last.op = "branch_and_bound_route" /\ NoMissingCount /\ KnownKey(last.optimization)) =>
        LET bt == BacktrackingRoute(last.start, last.end, last.optimization, Infinity)
            gr == GreedyRoute(last.start, last.end, last.optimization)
        IN  /\ bt.status = "ok" => (last.out.status = "ok" /\ last.out.cost <= bt.cost)
            /\ (gr.status = "ok" /\ last.out.status = "ok") => last.out.cost <= gr.cost

\* C6: on a table with every count present and for a weight key the bundles
\* hold, branch_and_bound_route returns no result only if self.G has no simple
\* path from start to end within the depth limit, and the cost it returns is
\* not above the cost of any such path
C6_BnBOptimal ==
    (last.op = "branch_and_bound_route" /\ NoMissingCount /\ KnownKey(last.optimization)) =>
        /\ last.out.status # "ok" => PathsWithin(last.start, last.end, MaxPathLen) = {}
        /\ last.out.status = "ok" =>
             \A p \in PathsWithin(last.start, last.end, MaxPathLen) :
                 last.out.cost <= PathCost(G, p, WeightAttr(last.optimization))

\* C7: for a weight key the bundles hold, backtracking_route with the default
\* max_cost returns either a simple path from start to end whose cost is not
\* above the cost of any simple path within the depth limit, or no path, and no
\* path only if no simple path within the depth limit exists
C7_BacktrackingOptimal ==
    (last.op = "backtracking_route" /\ KnownKey(last.optimization)) =>
        /\ last.out.status # "ok" => PathsWithin(last.start, last.end, MaxPathLen) = {}
        /\ last.out.status = "ok" =>
             /\ IsSimplePath(last.out.path, last.start, last.end)
             /\ last.out.cost = PathCost(G, last.out.path, WeightAttr(last.optimization))
             /\ \A p \in PathsWithin(last.start, last.end, MaxPathLen) :
                   last.out.cost <= PathCost(G, p, WeightAttr(last.optimization))

\* C8: for a weight key the bundles hold, k_shortest_paths returns at most k
\* routes, ranked 1, 2, ... in the order returned, of non-decreasing cost,
\* pairwise distinct, each a simple path from start to end; and fewer than k
\* only when self.G has fewer than k simple paths from start to end
C8_KShortest ==
    (last.op = "k_shortest_paths" /\ KnownKey(last.optimization)) =>
        /\ Len(last.out) <= last.k
        /\ \A i \in 1..Len(last.out) :
              /\ last.out[i].rank = i
              /\ IsSimplePath(last.out[i].path, last.start, last.end)
              /\ \A j \in 1..Len(last.out) :
                    /\ i < j => last.out[i].cost <= last.out[j].cost
                    /\ i # j => last.out[i].path # last.out[j].path
        /\ Len(last.out) < last.k
              => Cardinality(SimplePaths(G, last.start, last.end)) < last.k

\* C9: the graph _build_temp_graph_for_bbox returns on the linear-scan path is
\* a subgraph of self.G: its nodes are nodes of self.G and each of its edges is
\* an edge of self.G with the same attribute bundle
C9_CorridorSubgraph ==
    (last.op = "build_temp_graph" /\ ~ rtree) =>
        /\ \A n \in Range(last.out.nodes) : HasNode(G, n)
        /\ \A uv \in DOMAIN last.out.attr :
              HasEdge(G, uv[1], uv[2]) /\ last.out.attr[uv] = G.attr[uv]

C11_TablesUnchanged ==
    [][ /\ df' = df /\ G' = G /\ edge_bounds' = edge_bounds
        /\ min_ratio' = min_ratio /\ nodes_list' = nodes_list ]_vars

\* a /compare call has answered through its Dijkstra fallback, on a table of
\* several rows
C11_Queried ==
    /\ last.op = "compare"
    /\ \E i \in 1..Len(last.out.routes) : last.out.routes[i].note = "fallback: Dijkstra"
    /\ Len(df) > 1

\* C12: on the linear-scan path, a second call of calculate_route or of
\* greedy_route with the arguments of the call just answered returns the same
\* record, every field included, whatever the clock measures
C12_Idempotent ==
    /\ (last.op = "calculate_route" /\ ~ rtree) =>
          \A t \in Times :
             Timed(CalculateRoute(last.start, last.end, last.optimization, last.algorithm,
                                  AllIdx(df)), t) = last.out
    /\ (last.op = "greedy_route" /\ ~ rtree) =>
          \A t \in Times :
             Timed(GreedyRoute(last.start, last.end, last.optimization), t) = last.out

\* C13: a query whose optimization is not in opt_map and names no weight key of
\* the edge bundles returns no result: calculate_route returns None under every
\* algorithm and /route answers with an empty feature list
C13_UnknownOptimization ==
    /\ (last.op = "calculate_route" /\ OptMap(last.optimization) \notin WeightKeys)
          => last.out.status # "ok"
    /\ (last.op = "route" /\ OptMap(last.optimization) \notin WeightKeys)
          => (last.out.features = <<>> /\ ~ last.out.has_properties)

\* C14: on the linear-scan path, /route answers a query with optimization
\* 'incident' as it answers the same query with 'incidents': the same outcome,
\* algorithm label, cost, statistics and edges, for each of the six algorithms
C14_IncidentAliases ==
    ( /\ last.op = "route" /\ ~ rtree
      /\ last.optimization = "incident"
      /\ last.algorithm \in StandardAlgorithms \cup HeuristicAlgorithms ) =>
        LET r == ComputeRoute(last.start, last.end, "incidents", last.algorithm, AllIdx(df))
        IN  /\ r.has_properties = last.out.has_properties
            /\ r.properties.algorithm = last.out.properties.algorithm
            /\ r.properties.cost = last.out.properties.cost
            /\ r.properties.statistics = last.out.properties.statistics
            /\ Len(r.features) = Len(last.out.features)

\* every cell of the table holds a number >= 0
NoMissingCell ==
    \A i \in 1..Len(df) :
        df[i].length >= 0 /\ df[i].risk_score >= 0 /\ df[i].combined_cost >= 0
            /\ df[i].incidents_count >= 0

\* the bundle key and the min_ratio field of an optimization mode
RatioKeys ==
    { <<"weight_combined", "combined">>, <<"weight_risk", "risk">>,
      <<"weight_incidents", "incidents">> }

\* C15: after the construction from a table without empty cells, for combined,
\* risk and incidents: every edge of positive length has weight >= min_ratio *
\* length, and min_ratio is 0 exactly when no edge has a positive weight/length
C15_MinRatioLowerBound ==
    (last.op = "idle" /\ NoMissingCell) =>
        \A wk \in RatioKeys :
            /\ \A uv \in DOMAIN G.attr :
                  G.attr[uv].length > 0 =>
                     G.attr[uv][wk[1]] * min_ratio[wk[2]][2]
                         >= min_ratio[wk[2]][1] * G.attr[uv].length
            /\ min_ratio[wk[2]][1] = 0 <=>
                  ~ \E uv \in DOMAIN G.attr :
                        G.attr[uv].length > 0 /\ G.attr[uv][wk[1]] > 0

\* C16: after the construction every edge's weight under each of the four modes
\* is a number >= 0 (an empty source cell has become 0)
C16_WeightsFinite ==
    last.op = "idle" =>
        \A uv \in DOMAIN G.attr : \A key \in WeightKeys : G.attr[uv][key] >= 0

\* C17: on a table whose only row is a street from the start node to the end
\* node, /route returns that street under each of the six algorithms, and an
\* empty incidents_count counts 0 in total_incidents and in the edge's feature
C17_MissingCountIsZero ==
    ( /\ last.op = "route"
      /\ last.algorithm \in StandardAlgorithms \cup HeuristicAlgorithms
      /\ OptMap(last.optimization) \in WeightKeys
      /\ Len(df) = 1 /\ df[1].origin = last.start /\ df[1].destination = last.end
      /\ last.start # last.end ) =>
        LET n == IF IsNaN(df[1].incidents_count) THEN 0 ELSE df[1].incidents_count
        IN  /\ last.out.has_properties
            /\ last.out.properties.statistics.total_incidents = n
            /\ Len(last.out.features) = 1
            /\ last.out.features[1].incidents_count = n

\* C18: on the linear-scan path, when greedy_route returns a result and
\* calculate_route with 'dijkstra' returns one for the same endpoints and
\* optimization, the cost of greedy is not below the cost of Dijkstra
C18_GreedyNotBelowDijkstra ==
    (last.op = "greedy_route" /\ ~ rtree /\ last.out.status = "ok") =>
        LET d == CalculateRoute(last.start, last.end, last.optimization, "dijkstra", AllIdx(df))
        IN  d.status = "ok" => last.out.cost >= d.cost

\* C19: under every interleaving of the steps of two calls on one router, the
\* record a call returns is the record calculate_route returns for its snapped
\* nodes and arguments when it runs alone, time stamp aside
C19_NoInterference ==
    \A p \in Procs :
       calls[p].pc = "done" =>
          calls[p].out = Timed(CalculateRoute(calls[p].start, calls[p].end, calls[p].optimization,
                                              calls[p].algorithm, calls[p].prio),
                               calls[p].out.execution_time_ms)

\* C19: a call has returned a route while a second call, for other nodes and
\* another optimization, has built its corridor and not yet searched it
C19_Interleaved ==
    \E p, q \in Procs :
       /\ calls[p].pc = "done" /\ calls[p].out.status = "ok"
       /\ calls[q].pc = "search"
       /\ calls[q].optimization # calls[p].optimization
       /\ calls[q].start # calls[p].start

\* the corridor built with the i-th margins of a call lacks its start or end
BuildLacked(c, i) ==
    LacksNode(BuildTempGraph(CorridorBox(c.start, c.end, c.bufs[i]), c.prio), c.start, c.end)

\* box a lies within box b
BoxWithin(a, b) == b[1] <= a[1] /\ b[2] <= a[2] /\ a[3] <= b[3] /\ a[4] <= b[4]

\* m is 1.5 times n, rounded down to the microdegree
OneAndAHalf(m, n) == 2 * m <= 3 * n /\ 3 * n < 2 * m + 2

\* C20: a call builds at most 3 corridors; every build followed by another
\* lacked the start or the end node, and the next build has 1.5 times its
\* margins and a box that contains its box; self.G is searched only after 3
\* builds that each lacked one of the nodes
C20_CorridorRetries ==
    \A p \in Procs :
       /\ Len(calls[p].bufs) <= 3
       /\ \A i \in 1..(Len(calls[p].bufs) - 1) :
             /\ BuildLacked(calls[p], i)
             /\ OneAndAHalf(calls[p].bufs[i + 1][1], calls[p].bufs[i][1])
             /\ OneAndAHalf(calls[p].bufs[i + 1][2], calls[p].bufs[i][2])
             /\ BoxWithin(CorridorBox(calls[p].start, calls[p].end, calls[p].bufs[i]),
                          CorridorBox(calls[p].start, calls[p].end, calls[p].bufs[i + 1]))
       /\ calls[p].G_used = "G" =>
             /\ Len(calls[p].bufs) = 3
             /\ \A i \in 1..3 : BuildLacked(calls[p], i)

\* C20: a call has searched self.G after three corridors that each lacked one
\* of its nodes, and returned a route
C20_ThirdBuildFailed ==
    \E p \in Procs :
       /\ calls[p].G_used = "G" /\ calls[p].out.status = "ok"
       /\ Len(calls[p].bufs) = 3 /\ calls[p].attempt = 3

\* the counter of a greedy call: within the cap, and one for every node
\* appended (a node enters visited once) plus one for every node popped
IterationsCounted(c) ==
    /\ c.iterations <= MaxIterations
    /\ c.iterations = 2 * (Cardinality(c.visited) - 1) - (Len(c.path) - 1)

\* how a finished greedy call ended: a record only at the end node, None when
\* the cap is used up short of it or the start node has no neighbour left
GreedyEnded(c) ==
    /\ c.out.status = "ok" => c.current = c.end /\ c.out.path[Len(c.out.path)] = c.end
    /\ c.current # c.end /\ c.iterations >= MaxIterations => c.out.status = "none"
    /\ c.current # c.end /\ Len(c.path) = 1 /\ Unvisited(c) = <<>> => c.out.status = "none"

\* C21: greedy_route terminates; its counter never passes max_iterations and
\* counts forward and backtrack steps alike; it returns a record only at the
\* end node and None when the cap is exhausted or the start node is stuck
C21_GreedyTerminates ==
    /\ [](calls[1].pc # "idle" => IterationsCounted(calls[1]))
    /\ [](calls[1].pc = "done" => GreedyEnded(calls[1]))
    /\ (calls[1].pc = "loop") ~> (calls[1].pc = "done")

\* C21: a call has used up the cap short of the end node, with a neighbour
\* still to visit, and has returned None
C21_CapExhausted ==
    /\ calls[1].pc = "done" /\ calls[1].out.status = "none"
    /\ calls[1].iterations = MaxIterations
    /\ calls[1].current # calls[1].end
    /\ Unvisited(calls[1]) # <<>>

RECURSIVE WellFormedRows(_)
\* the rows of the table whose coordinates and geometry parse, in table order
WellFormedRows(rows) ==
    IF rows = << >> THEN << >>
    ELSE IF CoordinatesParsed(Head(rows)) /\ Head(rows).bbox # Unparsable
         THEN << Head(rows) >> \o WellFormedRows(Tail(rows))
         ELSE WellFormedRows(Tail(rows))

\* C22: construction ends with a router whose graph is the graph of the
\* well-formed rows of the table: a malformed row is skipped and the rows
\* after it are still loaded
C22_MalformedRowSkipped ==
    last.op # "build_graph" =>
       /\ last.op = "idle"
       /\ G = BuildGraph(WellFormedRows(df))

\* C23: the /compare response holds one entry per requested algorithm name,
\* in request order, each under the name it was requested by
C23_EntryPerAlgorithm ==
    last.op = "compare" =>
       /\ Len(last.out.routes) = Len(last.algorithm)
       /\ \A i \in 1..Len(last.out.routes) : last.out.routes[i].algorithm = last.algorithm[i]

\* C24: a call of calculate_route with an algorithm name it does not know ends
\* with None, on the corridor subgraph and on self.G alike, and /route answers
\* such a result with a FeatureCollection without features
C24_UnknownAlgorithmEmpty ==
    \A p \in Procs :
       calls[p].pc = "done" /\ calls[p].algorithm \notin StandardAlgorithms =>
          /\ calls[p].out = Fail("none")
          /\ RouteResponse(calls[p].out).type = "FeatureCollection"
          /\ RouteResponse(calls[p].out).features = << >>

\* C24: a call with an unknown algorithm name has ended at the search of
\* self.G, on a table on which a call with a known name has returned a route
C24_UnknownOnFullGraph ==
    \E p, q \in Procs :
       /\ calls[p].pc = "done" /\ calls[p].algorithm = "simplex" /\ calls[p].G_used = "G"
       /\ calls[q].pc = "done" /\ calls[q].out.status = "ok"

\* C25: the cost of a record greedy_route returns is the sum of the selected
\* weight over the consecutive node pairs of the returned path in self.G; the
\* weight of a street the walk went back from is not part of it
C25_CostIsPathSum ==
    calls[1].pc = "done" /\ calls[1].out.status = "ok" =>
       calls[1].out.cost = PathCost(G, calls[1].out.path, WeightAttr(calls[1].optimization))

\* C26: the cost calculate_route returns with 'dijkstra' is the least cost of
\* a path from the start node to the end node in self.G: no path of the full
\* graph is cheaper than the one found in the corridor
C26_CorridorCostIsLeast ==
    last.op = "calculate_route" /\ last.algorithm = "dijkstra" /\ last.out.status = "ok" =>
       \A p \in SimplePaths(G, last.start, last.end) :
          last.out.cost <= PathCost(G, p, OptMap(last.optimization))

\* the stored bounds of every row hold the row's origin and destination
BoundsHoldEndpoints ==
    \A i \in 1..Len(df) :
       /\ df[i].bbox[1] <= Min2(df[i].origin[1], df[i].destination[1])
       /\ df[i].bbox[2] <= Min2(df[i].origin[2], df[i].destination[2])
       /\ df[i].bbox[3] >= Max2(df[i].origin[1], df[i].destination[1])
       /\ df[i].bbox[4] >= Max2(df[i].origin[2], df[i].destination[2])

\* C27: when the bounds of every row hold both of its endpoints, the first
\* corridor of a call holds the start and the end node: no call builds a
\* second corridor, waits in the loop after a failed build, or searches self.G
C27_FirstCorridorHoldsNodes ==
    BoundsHoldEndpoints =>
       \A p \in Procs :
          /\ Len(calls[p].bufs) <= 1
          /\ ~ (calls[p].pc = "loop" /\ calls[p].attempt > 0)
          /\ calls[p].G_used # "G"
          /\ Len(calls[p].bufs) = 1 => ~ BuildLacked(calls[p], 1)

\* C27: on a table whose street bulges out of the first corridor while its
\* bounds hold both endpoints, a call has searched its first corridor and
\* returned a route
C27_BulgedStreetFound ==
    /\ BoundsHoldEndpoints
    /\ df[1].bbox[1] < -2
    /\ \E p \in Procs :
          /\ calls[p].pc = "done" /\ calls[p].G_used = "Gc" /\ calls[p].out.status = "ok"
          /\ Len(calls[p].bufs) = 1

\* the calls of the three variants of advanced_routing.py
VariantOps == {"greedy_route", "backtracking_route", "branch_and_bound_route"}

\* C28: a path returned by greedy_route, backtracking_route or
\* branch_and_bound_route starts at the snapped start node, ends at the
\* snapped end node, follows edges of self.G and holds no node twice
C28_VariantPathIsSimple ==
    last.op \in VariantOps /\ last.out.status = "ok" =>
       /\ Len(last.out.path) >= 1
       /\ last.out.path[1] = last.start
       /\ last.out.path[Len(last.out.path)] = last.end
       /\ \A i \in 1..(Len(last.out.path) - 1) : HasEdge(G, last.out.path[i], last.out.path[i + 1])
       /\ \A i, j \in 1..Len(last.out.path) : i # j => last.out.path[i] # last.out.path[j]

\* C28: greedy_route has returned a path after going back from a node it had
\* visited, so that it visited more nodes than the path holds
C28_GreedyWentBack ==
    /\ last.op = "greedy_route" /\ last.out.status = "ok"
    /\ Len(last.out.path) >= 2
    /\ last.out.nodes_explored > Len(last.out.path)

\* C29: a path returned by backtracking_route or branch_and_bound_route holds
\* at most MaxPathLen nodes, the depth limit of the two searches
C29_PathWithinDepthLimit ==
    /\ last.op \in {"backtracking_route", "branch_and_bound_route"}
    /\ last.out.status = "ok"
    => Len(last.out.path) <= MaxPathLen

\* the graph is small enough for the walk to end before the iteration cap
BelowCap == 2 * Len(G.nodes) < MaxIterations

\* C30: on a graph of fewer than MaxIterations / 2 nodes a finished call of
\* greedy_route has returned a path exactly when the end node can be reached
\* from the start node in self.G
C30_GreedyIsComplete ==
    calls[1].pc = "done" /\ BelowCap =>
        (calls[1].out.status = "ok" <=> Reachable(calls[1].start, calls[1].end))

====
